---- MODULE Spec2Model ----
(***************************************************************************)
(* Model of claim_explainer_app.py: a Streamlit script that summarises an  *)
(* insurance claim given as pasted text or as an uploaded file.            *)
(*                                                                         *)
(* Document texts (Python str values holding document content) are         *)
(* run-length encoded: a text is a sequence of runs [c |-> symbol, n |->   *)
(* count], adjacent runs carrying different symbols.  A symbol is one      *)
(* character, or an opaque token standing for a fixed message.  File names *)
(* and suffixes are plain sequences of characters.                         *)
(***************************************************************************)
EXTENDS Integers, Sequences, FiniteSets, TLC

\* ------------------------------------------------------------------ bounds
MaxRuns == 2          \* runs of equal characters in an input text
MaxPages == 2         \* pages of a PDF
MaxScriptRuns == 3    \* script runs (Streamlit reruns) of one process
MaxCalls == 2         \* direct calls of summarize_claim that are compared

\* text[:3000] in summarize_claim
TruncLimit == 3000

\* ------------------------------------------------------- str, run-length
Chars == {" ", "a", "b"}
Whitespace == {" ", "\t", "\n", "\r", "\f"}
IsSpace(c) == c \in Whitespace

Run(c, n) == [c |-> c, n |-> n]
EmptyText == << >>

\* a + b on str
Concat(a, b) ==
    IF a = << >> THEN b
    ELSE IF b = << >> THEN a
    ELSE IF a[Len(a)].c = b[1].c
         THEN SubSeq(a, 1, Len(a) - 1)
              \o << Run(b[1].c, a[Len(a)].n + b[1].n) >>
              \o Tail(b)
         ELSE a \o b

\* text[:k]
RECURSIVE Take(_, _)
Take(t, k) ==
    IF k <= 0 \/ t = << >> THEN << >>
    ELSE IF Head(t).n >= k THEN << Run(Head(t).c, k) >>
    ELSE << Head(t) >> \o Take(Tail(t), k - Head(t).n)

RECURSIVE LStrip(_)
LStrip(t) ==
    IF t = << >> THEN << >>
    ELSE IF IsSpace(Head(t).c) THEN LStrip(Tail(t))
    ELSE t

RECURSIVE RStrip(_)
RStrip(t) ==
    IF t = << >> THEN << >>
    ELSE IF IsSpace(t[Len(t)].c) THEN RStrip(SubSeq(t, 1, Len(t) - 1))
    ELSE t

\* text.strip()
Strip(t) == RStrip(LStrip(t))

\* not text.strip()
Blank(t) == Strip(t) = << >>

\* ------------------------------------------------------ fixed messages
NoTextDetectedMsg == << Run("No text detected in the document.", 1) >>
UnsupportedMsg == << Run("Unsupported file type.", 1) >>
CouldNotExtractMsg == << Run("Could not extract any readable text.", 1) >>
PleaseEnterMsg == << Run("Please enter some text.", 1) >>

\* summarizer(text, max_length=130, min_length=40, do_sample=False):
\* decoding is deterministic, so the summary is a function of the input
\* alone; which function is left open by tagging the input.
SummaryOf(t) == Concat(<< Run("summary of:", 1) >>, t)

\* ---------------------------------------------------- file names, suffix
\* s.rfind(ch), counted from 1; 0 when ch does not occur
LastIndexOf(s, ch) ==
    LET at == { i \in 1..Len(s) : s[i] = ch }
    IN  IF at = {} THEN 0 ELSE CHOOSE i \in at : \A j \in at : j <= i

\* Path(p).name: the final path component
PathName(p) == SubSeq(p, LastIndexOf(p, "/") + 1, Len(p))

\* Path(p).suffix: from the last dot of the name, unless the dot is the
\* first or the last character of the name
Suffix(p) ==
    LET name == PathName(p)
        i == LastIndexOf(name, ".")
    IN  IF 1 < i /\ i < Len(name) THEN SubSeq(name, i, Len(name)) ELSE << >>

UpperLetters == << "A", "B", "C", "D", "E", "F", "G", "H", "I", "J", "K", "L", "M",
                   "N", "O", "P", "Q", "R", "S", "T", "U", "V", "W", "X", "Y", "Z" >>
LowerLetters == << "a", "b", "c", "d", "e", "f", "g", "h", "i", "j", "k", "l", "m",
                   "n", "o", "p", "q", "r", "s", "t", "u", "v", "w", "x", "y", "z" >>

LowerChar(c) ==
    IF c \in { UpperLetters[i] : i \in 1..26 }
    THEN LowerLetters[CHOOSE i \in 1..26 : UpperLetters[i] = c]
    ELSE c

\* s.lower()
Lower(s) == [i \in 1..Len(s) |-> LowerChar(s[i])]

ExtPdf == << ".", "p", "d", "f" >>
ExtJpg == << ".", "j", "p", "g" >>
ExtJpeg == << ".", "j", "p", "e", "g" >>
ExtPng == << ".", "p", "n", "g" >>
ExtTxt == << ".", "t", "x", "t" >>
ImageExts == { ExtJpg, ExtJpeg, ExtPng }

\* file_ext = Path(file_path).suffix.lower()
FileExtNoLower(file_path) == Suffix(file_path)
FileExt(file_path) == Lower(Suffix(file_path))

\* ------------------------------------------------------------- inputs
RunLens == { 1, TruncLimit }
NormalForm(t) == \A i \in 1..(Len(t) - 1) : t[i].c /= t[i + 1].c

\* texts a user can paste or a .txt file can hold
Texts ==
    { t \in UNION { [1..k -> [c : Chars, n : RunLens]] : k \in 0..MaxRuns } :
        NormalForm(t) }

TxtSp == << Run(" ", 1) >>
TxtA == << Run("a", 1) >>
TxtB == << Run("b", 1) >>
TxtSpA == << Run(" ", 1), Run("a", 1) >>
TxtBSp == << Run("b", 1), Run(" ", 1) >>

\* what page.extract_text() can give for one page ("" for a page without text)
PageTexts == { EmptyText, TxtSp, TxtA, TxtB, TxtSpA, TxtBSp }
PageLists == UNION { [1..k -> PageTexts] : k \in 0..MaxPages }

\* what result.render() can give
OcrTexts == { EmptyText, TxtSp, TxtA, TxtSpA }

PdfNames == { << "a", ".", "p", "d", "f" >>,
              << "a", ".", "P", "D", "F" >>,
              << "a", ".", "d", "o", "c", "x", ".", "P", "d", "f" >> }
ImageNames == { << "a", ".", "j", "p", "g" >>,
                << "a", ".", "J", "P", "E", "G" >>,
                << "a", ".", "p", "n", "g" >>,
                << "a", ".", "P", "n", "G" >> }
TxtNames == { << "a", ".", "t", "x", "t" >>,
              << "a", ".", "T", "X", "T" >> }
OtherNames == { << "a", ".", "d", "o", "c", "x" >>,
                << "a" >>,
                << ".", "p", "d", "f" >>,
                << "a", ".", "p", "d", "f", ".", "d", "o", "c", "x" >>,
                << "a", ".", "p", "d", "f", "x" >>,
                << "t", "x", "t" >>,
                << "a", "." >>,
                << "d", ".", "p", "d", "f", "/", "a" >> }

\* A file: its path, whether the reader chosen for it can read it
\* (pdfplumber.open / open(..., encoding="utf-8").read() raise otherwise),
\* the per-page texts of its text layer, and its decoded content.
File(name, readable, pages, content) ==
    [name |-> name, readable |-> readable, pages |-> pages, content |-> content]

NoFile == File(<< >>, TRUE, << >>, EmptyText)

PdfFiles ==
    { File(n, TRUE, p, EmptyText) : n \in PdfNames, p \in PageLists }
    \cup { File(n, FALSE, << >>, EmptyText) : n \in PdfNames }
ImageFiles == { File(n, TRUE, << >>, EmptyText) : n \in ImageNames }
TxtFiles ==
    { File(n, TRUE, << >>, t) : n \in TxtNames, t \in Texts }
    \cup { File(n, FALSE, << >>, EmptyText) : n \in TxtNames }
OtherFiles == { File(n, TRUE, << >>, TxtA) : n \in OtherNames }
AllFiles == PdfFiles \cup ImageFiles \cup TxtFiles \cup OtherFiles

\* st.file_uploader(..., type=["pdf", "jpg", "jpeg", "png", "txt"])
UploaderTypes == { ExtPdf, ExtJpg, ExtJpeg, ExtPng, ExtTxt }
UploaderAccepts(name) == Lower(Suffix(name)) \in UploaderTypes
AppFiles == { f \in AllFiles : UploaderAccepts(f.name) }

\* tempfile.NamedTemporaryFile(delete=False, suffix=suffix).name
TempName(suffix) == << "t", "m", "p" >> \o suffix

\* -------------------------------------------------------------- state
VARIABLES
    pc,               \* position of the running script / function
    caller,           \* who called the pipeline: "text_entry", "upload", "direct"
    runs,             \* script runs started
    cache,            \* st.cache_resource entry of load_models
    ocr_model,        \* module global: id of the OCR model instance
    summarizer,       \* module global: id of the summarizer instance
    tempFiles,        \* ids of the staged temporary files on disk
    option,           \* sidebar radio: "text" or "upload"
    clicked,          \* the Explain Claim button was pressed in this run
    claim_text,       \* text_area value
    file,             \* the file process_claim_file is given
    pdf_text,         \* extract_text_from_pdf: text
    directTried,      \* the PDF text-layer attempt has completed
    raw_text,         \* process_claim_file: raw_text
    extractedBy,      \* "none", "direct", "ocr", "read"
    rendered,         \* what result.render() gave, when OCR answered
    summArg,          \* argument of the last summarize_claim call
    text,             \* summarize_claim: text
    result,           \* value returned by the function called
    shown,            \* what the script renders: [kind, text]
    ocrCalls,         \* invocations of the OCR capability in this run
    summCalls,        \* calls of summarize_claim in this run
    summarizerInputs, \* inputs handed to the summarizer in this run
    raisedBy,         \* "none", "file", "ocr", "summarizer"
    log               \* completed direct summarize_claim calls [arg, res]

vars == << pc, caller, runs, cache, ocr_model, summarizer, tempFiles, option,
           clicked, claim_text, file, pdf_text, directTried, raw_text,
           extractedBy, rendered, summArg, text, result, shown, ocrCalls, summCalls,
           summarizerInputs, raisedBy, log >>

procVars == << runs, cache, ocr_model, summarizer, tempFiles >>

Nothing == [kind |-> "none", text |-> EmptyText]

EmptyCache == [loaded |-> FALSE, created |-> 0, ocr_model |-> 0, summarizer |-> 0]

\* ocr_predictor(pretrained=True), pipeline("summarization", ...): the body
\* of load_models builds new instances, numbered by creation
BuildModels(c) ==
    [loaded |-> TRUE, created |-> c.created + 1,
     ocr_model |-> c.created + 1, summarizer |-> c.created + 1]

\* @st.cache_resource def load_models(): the body runs on a cache miss only
load_models_uncached(c) == BuildModels(c)
load_models(c) == IF c.loaded THEN c ELSE BuildModels(c)

LocalsInit ==
    /\ file = NoFile
    /\ pdf_text = EmptyText
    /\ directTried = FALSE
    /\ raw_text = EmptyText
    /\ extractedBy = "none"
    /\ rendered = EmptyText
    /\ summArg = EmptyText
    /\ text = EmptyText
    /\ result = EmptyText
    /\ ocrCalls = 0
    /\ summCalls = 0
    /\ summarizerInputs = << >>
    /\ raisedBy = "none"

Init ==
    /\ pc = "idle"
    /\ caller = "none"
    /\ runs = 0
    /\ cache = EmptyCache
    /\ ocr_model = 0
    /\ summarizer = 0
    /\ tempFiles = {}
    /\ option = "none"
    /\ clicked = FALSE
    /\ claim_text = EmptyText
    /\ shown = Nothing
    /\ log = << >>
    /\ LocalsInit

\* ------------------------------------------------ extract_text_from_pdf
\* for page in pdf.pages: page_text = page.extract_text();
\*     if page_text: text += page_text
RECURSIVE ConcatPagesReversed(_)
ConcatPagesReversed(pages) ==
    IF pages = << >> THEN EmptyText
    ELSE LET page_text == Head(pages)
             rest == ConcatPagesReversed(Tail(pages))
         IN  IF page_text /= EmptyText THEN Concat(rest, page_text) ELSE rest

RECURSIVE ConcatPages(_)
ConcatPages(pages) ==
    IF pages = << >> THEN EmptyText
    ELSE LET page_text == pages[Len(pages)]
             before == ConcatPages(SubSeq(pages, 1, Len(pages) - 1))
         IN  IF page_text /= EmptyText THEN Concat(before, page_text) ELSE before

\* if text.strip():
DirectTextUsableNoStrip(t) == t /= EmptyText
DirectTextUsable(t) == Strip(t) /= EmptyText

\* if not raw_text.strip():  (process_claim_file)
ExtractedBlankNoStrip(t) == t = EmptyText
ExtractedBlank(t) == Blank(t)

\* if claim_text.strip():  (text-entry branch)
TextEntryGuardAlways(t) == TRUE
TextEntryGuard(t) == ~Blank(t)

flowVars == << caller, option, clicked, claim_text, shown, log >>

\* process_claim_file, lines 112-121: classify by suffix
Classify ==
    /\ pc = "classify"
    /\ LET file_ext == FileExt(file.name)
       IN  IF file_ext = ExtPdf
           THEN pc' = "pdf_direct" /\ UNCHANGED result
           ELSE IF file_ext \in ImageExts
           THEN pc' = "image_ocr" /\ UNCHANGED result
           ELSE IF file_ext = ExtTxt
           THEN pc' = "txt_read" /\ UNCHANGED result
           ELSE pc' = "returned" /\ result' = UnsupportedMsg
    /\ UNCHANGED << procVars, flowVars, file, pdf_text, directTried, raw_text,
                    extractedBy, rendered, summArg, text, ocrCalls, summCalls,
                    summarizerInputs, raisedBy >>

\* extract_text_from_pdf, lines 82-89: the text-layer attempt
PdfDirect ==
    /\ pc = "pdf_direct"
    /\ IF ~file.readable
       THEN /\ pc' = "raised"
            /\ raisedBy' = "file"
            /\ UNCHANGED << pdf_text, directTried, raw_text, extractedBy, rendered >>
       ELSE LET t == ConcatPages(file.pages)
            IN  /\ pdf_text' = t
                /\ directTried' = TRUE
                /\ UNCHANGED raisedBy
                /\ IF DirectTextUsable(t)
                   THEN /\ raw_text' = Strip(t)
                        /\ extractedBy' = "direct"
                        /\ UNCHANGED rendered
                        /\ pc' = "check_extracted"
                   ELSE /\ pc' = "pdf_ocr"
                        /\ UNCHANGED << raw_text, extractedBy, rendered >>
    /\ UNCHANGED << procVars, flowVars, file, summArg, text, result, ocrCalls,
                    summCalls, summarizerInputs >>

\* doc = DocumentFile.from_...(path); result = ocr_model(doc);
\* return result.render(): the OCR capability renders some text or raises
OcrStep(ok, out) ==
    /\ ocrCalls' = ocrCalls + 1
    /\ IF ok
       THEN /\ rendered' = out
            /\ raw_text' = out
            /\ extractedBy' = "ocr"
            /\ pc' = "check_extracted"
            /\ UNCHANGED raisedBy
       ELSE /\ pc' = "raised"
            /\ raisedBy' = "ocr"
            /\ UNCHANGED << raw_text, extractedBy, rendered >>
    /\ UNCHANGED << procVars, flowVars, file, pdf_text, directTried, summArg,
                    text, result, summCalls, summarizerInputs >>

\* extract_text_from_pdf, lines 91-94: the OCR fallback
PdfOcrFallback ==
    /\ pc = "pdf_ocr"
    /\ \E ok \in BOOLEAN, out \in OcrTexts : OcrStep(ok, out)

\* extract_text_from_image, lines 96-100
ExtractTextFromImage ==
    /\ pc = "image_ocr"
    /\ \E ok \in BOOLEAN, out \in OcrTexts : OcrStep(ok, out)

\* process_claim_file, lines 117-119: read the .txt file
TxtRead ==
    /\ pc = "txt_read"
    /\ IF file.readable
       THEN /\ raw_text' = file.content
            /\ extractedBy' = "read"
            /\ UNCHANGED rendered
            /\ pc' = "check_extracted"
            /\ UNCHANGED raisedBy
       ELSE /\ pc' = "raised"
            /\ raisedBy' = "file"
            /\ UNCHANGED << raw_text, extractedBy, rendered >>
    /\ UNCHANGED << procVars, flowVars, file, pdf_text, directTried, summArg,
                    text, result, ocrCalls, summCalls, summarizerInputs >>

\* process_claim_file, lines 123-125
CheckExtracted ==
    /\ pc = "check_extracted"
    /\ IF ExtractedBlank(raw_text)
       THEN /\ result' = CouldNotExtractMsg
            /\ pc' = "returned"
            /\ UNCHANGED << summArg, text, summCalls >>
       ELSE /\ summArg' = raw_text
            /\ text' = raw_text
            /\ summCalls' = summCalls + 1
            /\ pc' = "summ_check"
            /\ UNCHANGED result
    /\ UNCHANGED << procVars, flowVars, file, pdf_text, directTried, raw_text,
                    extractedBy, rendered, ocrCalls, summarizerInputs, raisedBy >>

\* summarize_claim, lines 104-106
SummarizeCheck ==
    /\ pc = "summ_check"
    /\ IF Blank(text)
       THEN /\ result' = NoTextDetectedMsg
            /\ pc' = "returned"
            /\ UNCHANGED text
       ELSE /\ text' = Take(text, TruncLimit)
            /\ pc' = "summ_call"
            /\ UNCHANGED result
    /\ UNCHANGED << procVars, flowVars, file, pdf_text, directTried, raw_text,
                    extractedBy, rendered, summArg, ocrCalls, summCalls,
                    summarizerInputs, raisedBy >>

\* summarize_claim, lines 107-108: the summarizer answers or raises
SummarizerCall ==
    /\ pc = "summ_call"
    /\ summarizerInputs' = Append(summarizerInputs, text)
    /\ \E ok \in BOOLEAN :
          IF ok
          THEN /\ result' = Strip(SummaryOf(text))
               /\ pc' = "returned"
               /\ UNCHANGED raisedBy
          ELSE /\ pc' = "raised"
               /\ raisedBy' = "summarizer"
               /\ UNCHANGED result
    /\ UNCHANGED << procVars, flowVars, file, pdf_text, directTried, raw_text,
                    extractedBy, rendered, summArg, text, ocrCalls, summCalls >>

Pipeline ==
    \/ Classify
    \/ PdfDirect
    \/ PdfOcrFallback
    \/ ExtractTextFromImage
    \/ TxtRead
    \/ CheckExtracted
    \/ SummarizeCheck
    \/ SummarizerCall

\* ---------------------------------------------------- the script (UI)
pipeVars == << file, pdf_text, directTried, raw_text, extractedBy, rendered, summArg,
               text, result, ocrCalls, summCalls, summarizerInputs, raisedBy >>

LocalsReset ==
    /\ file' = NoFile
    /\ pdf_text' = EmptyText
    /\ directTried' = FALSE
    /\ raw_text' = EmptyText
    /\ extractedBy' = "none"
    /\ rendered' = EmptyText
    /\ summArg' = EmptyText
    /\ text' = EmptyText
    /\ result' = EmptyText
    /\ ocrCalls' = 0
    /\ summCalls' = 0
    /\ summarizerInputs' = << >>
    /\ raisedBy' = "none"

\* A script run starts (first load or a rerun after a widget event):
\* line 74, ocr_model, summarizer = load_models()
StartRun ==
    /\ pc \in { "idle", "done" }
    /\ runs < MaxScriptRuns
    /\ runs' = runs + 1
    /\ cache' = load_models(cache)
    /\ ocr_model' = cache'.ocr_model
    /\ summarizer' = cache'.summarizer
    /\ pc' = "mode"
    /\ caller' = "none"
    /\ option' = "none"
    /\ clicked' = FALSE
    /\ claim_text' = EmptyText
    /\ shown' = Nothing
    /\ LocalsReset
    /\ UNCHANGED << tempFiles, log >>

\* lines 136-145: the text-entry branch
TextEntry(t, c) ==
    /\ pc = "mode"
    /\ option' = "text"
    /\ claim_text' = t
    /\ clicked' = c
    /\ IF c /\ TextEntryGuard(t)
       THEN /\ caller' = "text_entry"
            /\ summArg' = t
            /\ text' = t
            /\ summCalls' = summCalls + 1
            /\ pc' = "summ_check"
            /\ UNCHANGED shown
       ELSE /\ shown' = IF c THEN [kind |-> "warning", text |-> PleaseEnterMsg]
                        ELSE Nothing
            /\ pc' = "done"
            /\ UNCHANGED << caller, summArg, text, summCalls >>
    /\ UNCHANGED << procVars, log, file, pdf_text, directTried, raw_text,
                    extractedBy, rendered, result, ocrCalls, summarizerInputs, raisedBy >>

\* lines 142-143
TextEntryShow ==
    /\ pc = "returned"
    /\ caller = "text_entry"
    /\ shown' = [kind |-> "success", text |-> result]
    /\ pc' = "done"
    /\ UNCHANGED << procVars, pipeVars, caller, option, clicked, claim_text, log >>

\* lines 147-158: a file is uploaded; it is staged in a new temporary file
\* (named by this run; the names never repeat) and, when the button is
\* pressed, handed to process_claim_file
Upload(f, c) ==
    /\ pc = "mode"
    /\ option' = "upload"
    /\ clicked' = c
    /\ tempFiles' = tempFiles \cup { runs }
    /\ file' = File(TempName(Suffix(f.name)), f.readable, f.pages, f.content)
    /\ shown' = [kind |-> "info", text |-> EmptyText]
    /\ IF c
       THEN pc' = "classify" /\ caller' = "upload"
       ELSE pc' = "done" /\ UNCHANGED caller
    /\ UNCHANGED << runs, cache, ocr_model, summarizer, claim_text, log,
                    pdf_text, directTried, raw_text, extractedBy, rendered, summArg,
                    text, result, ocrCalls, summCalls, summarizerInputs,
                    raisedBy >>

\* lines 147-148: upload mode with no file chosen
UploadNothing ==
    /\ pc = "mode"
    /\ option' = "upload"
    /\ pc' = "done"
    /\ UNCHANGED << procVars, pipeVars, caller, clicked, claim_text, shown, log >>

\* lines 159-160
UploadShow ==
    /\ pc = "returned"
    /\ caller = "upload"
    /\ shown' = [kind |-> "success", text |-> result]
    /\ pc' = "done"
    /\ UNCHANGED << procVars, pipeVars, caller, option, clicked, claim_text, log >>

\* lines 141, 158: nothing catches what the pipeline raises; the script run
\* ends there and Streamlit renders the exception
ScriptException ==
    /\ pc = "raised"
    /\ caller \in { "text_entry", "upload" }
    /\ shown' = [kind |-> "exception", text |-> EmptyText]
    /\ pc' = "done"
    /\ UNCHANGED << procVars, pipeVars, caller, option, clicked, claim_text, log >>

Next ==
    \/ StartRun
    \/ \E t \in Texts, c \in BOOLEAN : TextEntry(t, c)
    \/ TextEntryShow
    \/ \E f \in AppFiles, c \in BOOLEAN : Upload(f, c)
    \/ UploadNothing
    \/ UploadShow
    \/ ScriptException
    \/ Pipeline

Spec == Init /\ [][Next]_vars

\* ------------------------------ process_claim_file called on any path
LoadedCache == BuildModels(EmptyCache)

PipeInit ==
    /\ pc = "classify"
    /\ caller = "direct"
    /\ runs = 0
    /\ cache = LoadedCache
    /\ ocr_model = LoadedCache.ocr_model
    /\ summarizer = LoadedCache.summarizer
    /\ tempFiles = {}
    /\ option = "none"
    /\ clicked = FALSE
    /\ claim_text = EmptyText
    /\ shown = Nothing
    /\ log = << >>
    /\ file \in AllFiles
    /\ pdf_text = EmptyText
    /\ directTried = FALSE
    /\ raw_text = EmptyText
    /\ extractedBy = "none"
    /\ rendered = EmptyText
    /\ summArg = EmptyText
    /\ text = EmptyText
    /\ result = EmptyText
    /\ ocrCalls = 0
    /\ summCalls = 0
    /\ summarizerInputs = << >>
    /\ raisedBy = "none"

PipeNext == Pipeline

PipeSpec == PipeInit /\ [][PipeNext]_vars

\* The interpreter runs a started call to its end: single-threaded,
\* synchronous execution.
PipeLive == PipeSpec /\ WF_vars(PipeNext)

\* --------------------------------- summarize_claim called on any text
SummInit ==
    /\ pc = "summ_idle"
    /\ caller = "direct"
    /\ runs = 0
    /\ cache = LoadedCache
    /\ ocr_model = LoadedCache.ocr_model
    /\ summarizer = LoadedCache.summarizer
    /\ tempFiles = {}
    /\ option = "none"
    /\ clicked = FALSE
    /\ claim_text = EmptyText
    /\ shown = Nothing
    /\ log = << >>
    /\ LocalsInit

\* summarize_claim(t)
SummInvoke(t) ==
    /\ pc = "summ_idle"
    /\ Len(log) < MaxCalls
    /\ summArg' = t
    /\ text' = t
    /\ summCalls' = 1
    /\ summarizerInputs' = << >>
    /\ pc' = "summ_check"
    /\ UNCHANGED << procVars, flowVars, file, pdf_text, directTried, raw_text,
                    extractedBy, rendered, result, ocrCalls, raisedBy >>

\* the call has returned: note argument and result
SummRecord ==
    /\ pc = "returned"
    /\ log' = Append(log, [arg |-> summArg, res |-> result])
    /\ pc' = "summ_idle"
    /\ UNCHANGED << procVars, pipeVars, caller, option, clicked, claim_text, shown >>

SummNext ==
    \/ \E t \in Texts : SummInvoke(t)
    \/ SummarizeCheck
    \/ SummarizerCall
    \/ SummRecord

SummSpec == SummInit /\ [][SummNext]_vars

\* ================================================================ claims
SupportedExts == { ExtPdf, ExtJpg, ExtJpeg, ExtPng, ExtTxt }
SuffixSupported == Lower(Suffix(file.name)) \in SupportedExts
IsPdf == Lower(Suffix(file.name)) = ExtPdf
IsImage == Lower(Suffix(file.name)) \in { ExtJpg, ExtJpeg, ExtPng }
Terminal == pc \in { "returned", "raised" }
PastExtraction == pc \in { "check_extracted", "summ_check", "summ_call", "returned" }

\* the per-page texts joined in document order, first page first
RECURSIVE JoinPages(_)
JoinPages(pages) ==
    IF pages = << >> THEN EmptyText ELSE Concat(Head(pages), JoinPages(Tail(pages)))

\* the text layer of the file is empty once whitespace is trimmed
TextLayerBlank == \A i \in 1..Len(file.pages) : Blank(file.pages[i])

C2_PrefixDeterminesResult ==
    \A i, j \in 1..Len(log) :
        Take(log[i].arg, TruncLimit) = Take(log[j].arg, TruncLimit)
            => log[i].res = log[j].res

\* C3: when the text extracted from a supported file is empty or
\* whitespace-only, summarize_claim is not called, the summarizer gets no
\* input, and what process_claim_file returns is the "could not extract"
\* message.
C3_BlankExtractionShortCircuits ==
    (extractedBy /= "none" /\ Blank(raw_text))
        => /\ summCalls = 0
           /\ summarizerInputs = << >>
           /\ pc \in { "check_extracted", "returned" }
           /\ (pc = "returned" => result = CouldNotExtractMsg)

C3_Witness ==
    /\ pc = "returned"
    /\ IsPdf
    /\ extractedBy = "ocr"
    /\ raw_text = TxtSp
    /\ result = CouldNotExtractMsg

\* C4: a path whose suffix, lower-cased, is not .pdf/.jpg/.jpeg/.png/.txt
\* makes process_claim_file return the "unsupported" message without
\* raising and without invoking OCR or the summarizer; a path whose suffix
\* is one of them, in any letter case, never gets that message.
C4_UnsupportedSuffix ==
    /\ ~SuffixSupported
          => /\ pc \in { "classify", "returned" }
             /\ ocrCalls = 0
             /\ summCalls = 0
             /\ summarizerInputs = << >>
             /\ (pc = "returned" => result = UnsupportedMsg)
    /\ SuffixSupported => result /= UnsupportedMsg

C4_Witness ==
    /\ pc = "returned"
    /\ file.name = << "a", ".", "d", "o", "c", "x" >>
    /\ result = UnsupportedMsg
    /\ ocrCalls = 0

\* C5: OCR is invoked at most once per invocation; only for an image, or
\* for a PDF after its text-layer attempt found nothing but whitespace; and
\* once extraction is over it has been invoked for every image and every
\* such PDF.
C5_OcrExactlyWhen ==
    /\ ocrCalls <= 1
    /\ ocrCalls = 1 => (IsImage \/ (IsPdf /\ directTried /\ file.readable /\ TextLayerBlank))
    /\ (PastExtraction \/ (pc = "raised" /\ raisedBy /= "file"))
          => ((IsImage \/ (IsPdf /\ TextLayerBlank)) => ocrCalls = 1)

C5_Witness ==
    /\ pc = "returned"
    /\ IsPdf
    /\ file.pages = << TxtSp, EmptyText >>
    /\ directTried
    /\ ocrCalls = 1

\* C6 as stated: for a PDF the extracted text is the concatenation of the
\* per-page texts itself when that is not blank, else the OCR text.
C6_ReturnsTextLayerItself ==
    (PastExtraction /\ IsPdf)
        => IF ~Blank(JoinPages(file.pages))
           THEN raw_text = JoinPages(file.pages)
           ELSE extractedBy = "ocr" /\ raw_text = rendered

\* C6 amended: for a PDF the extracted text is the concatenation of the
\* per-page texts in document order with leading and trailing whitespace
\* trimmed, obtained without OCR, when the concatenation is not blank; else
\* it is the text OCR rendered, unchanged.
C6_ReturnsTrimmedTextLayer ==
    (PastExtraction /\ IsPdf)
        => IF ~Blank(JoinPages(file.pages))
           THEN /\ extractedBy = "direct"
                /\ raw_text = Strip(JoinPages(file.pages))
                /\ ocrCalls = 0
           ELSE /\ extractedBy = "ocr"
                /\ raw_text = rendered

C6_Witness ==
    /\ pc = "check_extracted"
    /\ file.pages = << TxtSpA, TxtBSp >>
    /\ extractedBy = "direct"
    /\ raw_text = << Run("a", 1), Run("b", 1) >>

\* C7 as stated: blank text submitted in text-entry mode shows the
\* summarization adapter's "no text detected" warning, and the summarizer
\* is not invoked.
C7_BlankTextShowsNoTextDetected ==
    (pc = "done" /\ option = "text" /\ clicked /\ Blank(claim_text))
        => /\ shown.text = NoTextDetectedMsg
           /\ summarizerInputs = << >>

\* C7 amended: blank text submitted in text-entry mode shows the branch's
\* own warning "Please enter some text."; summarize_claim is not called and
\* the summarizer is not invoked.
C7_BlankTextShowsPleaseEnter ==
    (option = "text" /\ clicked /\ Blank(claim_text))
        => /\ pc = "done"
           /\ shown = [kind |-> "warning", text |-> PleaseEnterMsg]
           /\ summCalls = 0
           /\ summarizerInputs = << >>

C7_Witness ==
    /\ pc = "done"
    /\ option = "text"
    /\ clicked
    /\ claim_text = << Run(" ", TruncLimit) >>
    /\ shown.kind = "warning"

\* the outcome of a returned invocation of process_claim_file
C8_Outcome ==
    pc = "returned"
        => LET done == /\ Len(summarizerInputs) = 1
                       /\ result = Strip(SummaryOf(summarizerInputs[1]))
           IN  /\ result = UnsupportedMsg <=> ~SuffixSupported
               /\ result = CouldNotExtractMsg <=> (SuffixSupported /\ Blank(raw_text))
               /\ done <=> (SuffixSupported /\ ~Blank(raw_text))
               /\ ~done => summarizerInputs = << >>

C9_ModelsLoadedOnce ==
    /\ cache.created <= 1
    /\ runs >= 1
          => /\ cache.loaded
             /\ cache.created = 1
             /\ ocr_model = 1
             /\ summarizer = 1

C9_Witness ==
    /\ runs = 2
    /\ pc = "returned"
    /\ ocrCalls = 1
    /\ Len(summarizerInputs) = 1
    /\ cache.created = 1
    /\ ocr_model = 1

\* C10: the text handed to the summarizer is never empty or
\* whitespace-only.
C10_SummarizerInputNeverBlank ==
    \A i \in 1..Len(summarizerInputs) : ~Blank(summarizerInputs[i])

====
